---------------------------- MODULE Spec2Model ----------------------------
(***************************************************************************)
(* A model of src/app.py (wryan14/youtube-whisper): the chunked            *)
(* transcription pipeline (split_audio, transcribe_audio,                  *)
(* merge_transcripts), the writers (save_transcript, generate_srt,         *)
(* format_srt_time) and the three request handlers (transcribe_file,       *)
(* transcribe_youtube, download).                                          *)
(*                                                                         *)
(* Times are integers in milliseconds (len(audio) of pydub is an integer   *)
(* number of milliseconds; segment times are the backend's decimal seconds *)
(* taken at millisecond resolution).  A file path is a record              *)
(* [id, ext, chunk]: data/audio/<id>.<ext> when chunk = 0 and              *)
(* data/audio/<id>_chunk_<chunk>.<ext> otherwise.                          *)
(***************************************************************************)
EXTENDS Integers, Sequences, FiniteSets, TLC

VARIABLES
    split_in,     \* split harness: the arguments of split_audio
    split_out,    \* split harness: the clips split_audio returned
    mrg_in,       \* merge harness: the ChunkResults as handed to merge_transcripts
    mrg,          \* merge harness: the locals of merge_transcripts (and its argument)
    mrg_ret,      \* merge harness: the value merge_transcripts returned
    srt_in,       \* srt harness: the transcript handed to generate_srt
    srt_out,      \* srt harness: the characters generate_srt wrote
    files,        \* data/audio: path -> content of the audio files that exist
    artifacts,    \* data/transcripts, data/subtitles: the files that exist
    video,        \* the audio each YouTube video id resolves to
    keep_audio,   \* os.environ.get("KEEP_AUDIO_FILES")
    n_uploads,    \* upload ids handed out so far
    req           \* per request: the locals of its handler and its answer

vars == <<split_in, split_out, mrg_in, mrg, mrg_ret, srt_in, srt_out,
          files, artifacts, video, keep_audio, n_uploads, req>>

splitVars == <<split_in, split_out>>
mergeVars == <<mrg_in, mrg, mrg_ret>>
srtVars   == <<srt_in, srt_out>>
pipeVars  == <<files, artifacts, video, keep_audio, n_uploads, req>>
harnessVars == <<splitVars, mergeVars, srtVars>>

\* An absent value is the empty sequence, a present value x is <<x>>.
Nothing == << >>

Min(a, b) == IF a <= b THEN a ELSE b

(***************************************************************************)
(* Program constants.                                                      *)
(***************************************************************************)
MAX_FILE_SIZE_MB == 24
BytesPerMB == 1024 * 1024
chunk_duration_seconds == 600
MsPerSecond == 1000

(***************************************************************************)
(* Bounds of the model.                                                    *)
(***************************************************************************)
MaxLenMs == 3200
MaxChunkSeconds == 2

(***************************************************************************)
(* split_audio                                                             *)
(***************************************************************************)
\* A variant of num_chunks: int(total_duration / chunk_duration_seconds) + 1
num_chunks_nozero(len_ms, M) == (len_ms \div (M * MsPerSecond)) + 1

\* math.ceil(total_duration / chunk_duration_seconds), total_duration = len(audio) / 1000
num_chunks(len_ms, M) == (len_ms + M * MsPerSecond - 1) \div (M * MsPerSecond)

\* A variant of span: end_ms without the min against len(audio)
span_nomin(i, len_ms, M) ==
    [start_ms |-> i * M * MsPerSecond, end_ms |-> (i + 1) * M * MsPerSecond]

\* start_ms and end_ms of iteration i (0-based) of the loop
span(i, len_ms, M) ==
    [start_ms |-> i * M * MsPerSecond,
     end_ms   |-> Min((i + 1) * M * MsPerSecond, len_ms)]

\* audio_file.replace('.mp3', f'_chunk_{i+1}.mp3'), i 0-based: a path that does
\* not hold '.mp3' is returned as it is
chunk_file(audio_file, i) ==
    IF audio_file.ext = "mp3" THEN [audio_file EXCEPT !.chunk = i + 1] ELSE audio_file

\* The clips of the loop in order: the file each was exported to and the span
\* audio[start_ms:end_ms] it holds.
split_audio(audio_file, len_ms, M) ==
    [k \in 1..num_chunks(len_ms, M) |->
        [file     |-> chunk_file(audio_file, k - 1),
         start_ms |-> span(k - 1, len_ms, M).start_ms,
         end_ms   |-> span(k - 1, len_ms, M).end_ms]]

\* Every duration up to MaxLenMs with every chunk duration up to
\* MaxChunkSeconds, and some durations at the default chunk duration.
SplitInputs ==
    [audio_file : {[id |-> "a", ext |-> "mp3", chunk |-> 0]},
     len_ms : 1..MaxLenMs, M : 1..MaxChunkSeconds]
    \cup
    [audio_file : {[id |-> "a", ext |-> "mp3", chunk |-> 0]},
     len_ms : {599999, 600000, 600001, 1200000, 1500000},
     M : {chunk_duration_seconds}]

SplitIdle == split_in = Nothing /\ split_out = Nothing

SplitCall ==
    /\ split_in # Nothing
    /\ split_out = Nothing
    /\ split_out' = <<split_audio(split_in[1].audio_file, split_in[1].len_ms, split_in[1].M)>>
    /\ UNCHANGED split_in

(***************************************************************************)
(* merge_transcripts                                                       *)
(*                                                                         *)
(* A text is a sequence of characters.  A ChunkResult is                   *)
(* [text, segments], a segment [start, end, text].  The segment dicts of   *)
(* the argument are updated in place and appended to all_segments as they  *)
(* are, so the argument is part of the loop's state.                       *)
(***************************************************************************)
MaxChunks == 3
MaxTotalSegs == 3

RECURSIVE join(_, _)
\* sep.join(texts)
join(sep, texts) ==
    IF Len(texts) = 0 THEN << >>
    ELSE IF Len(texts) = 1 THEN texts[1]
    ELSE texts[1] \o sep \o join(sep, Tail(texts))

\* full_text = [], all_segments = [], time_offset = 0
merge_enter(chunks) ==
    [chunks |-> chunks, k |-> 0, full_text |-> << >>,
     all_segments |-> << >>, time_offset |-> 0]

\* segment["start"] += time_offset; segment["end"] += time_offset
shift(segment, time_offset) ==
    [segment EXCEPT !.start = @ + time_offset, !.end = @ + time_offset]

\* A variant of next_offset: a chunk without segments sets time_offset to 0
next_offset_reset(segments, time_offset) ==
    IF Len(segments) > 0 THEN segments[Len(segments)].end ELSE 0

\* if chunk.get("segments") and "end" in chunk["segments"][-1]:
\*     time_offset = chunk["segments"][-1]["end"]
\* on the chunk's segments as they are after the shift in place
next_offset(segments, time_offset) ==
    IF Len(segments) > 0 THEN segments[Len(segments)].end ELSE time_offset

\* A variant of merge_iter: time_offset taken from the segments as they were
\* before the shift (their clip-local end)
merge_iter_local(m) ==
    LET chunk   == m.chunks[m.k + 1]
        shifted == [j \in 1..Len(chunk.segments) |->
                       shift(chunk.segments[j], m.time_offset)]
    IN  [chunks       |-> [m.chunks EXCEPT ![m.k + 1].segments = shifted],
         k            |-> m.k + 1,
         full_text    |-> Append(m.full_text, chunk.text),
         all_segments |-> m.all_segments \o shifted,
         time_offset  |-> next_offset(chunk.segments, m.time_offset)]

\* one iteration of `for chunk in chunks`, on chunk k + 1
merge_iter(m) ==
    LET chunk   == m.chunks[m.k + 1]
        shifted == [j \in 1..Len(chunk.segments) |->
                       shift(chunk.segments[j], m.time_offset)]
    IN  [chunks       |-> [m.chunks EXCEPT ![m.k + 1].segments = shifted],
         k            |-> m.k + 1,
         full_text    |-> Append(m.full_text, chunk.text),
         all_segments |-> m.all_segments \o shifted,
         time_offset  |-> next_offset(shifted, m.time_offset)]

\* return {"text": " ".join(full_text), "segments": all_segments}
merge_return(m) ==
    [text |-> join(<<" ">>, m.full_text), segments |-> m.all_segments]

RECURSIVE merge_loop(_)
merge_loop(m) == IF m.k = Len(m.chunks) THEN m ELSE merge_loop(merge_iter(m))

merge_transcripts(chunks) == merge_return(merge_loop(merge_enter(chunks)))

\* The segments the harness draws from: well-formed (0 <= start <= end).
SegmentChoices ==
    { [start |-> 0, end |-> 5, text |-> <<"a">>],
      [start |-> 5, end |-> 9, text |-> <<"b">>],
      [start |-> 0, end |-> 4, text |-> <<"c">>],
      [start |-> 2, end |-> 2, text |-> <<"d">>] }

RECURSIVE concat_texts(_)
concat_texts(segments) ==
    IF Len(segments) = 0 THEN << >>
    ELSE segments[1].text \o concat_texts(Tail(segments))

\* the ChunkResults with exactly n segments
ChunkResults(n) ==
    { [text |-> concat_texts(segs), segments |-> segs] :
        segs \in [1..n -> SegmentChoices] }

RECURSIVE ChunkSeqs(_, _)
\* the sequences of n ChunkResults with at most `budget` segments in all
ChunkSeqs(n, budget) ==
    IF n = 0 THEN { << >> }
    ELSE UNION { { <<c>> \o rest : c \in ChunkResults(s),
                                   rest \in ChunkSeqs(n - 1, budget - s) } :
                 s \in 0..budget }

MergeInputs == UNION { ChunkSeqs(n, MaxTotalSegs) : n \in 0..MaxChunks }

MergeIdle == mrg_in = Nothing /\ mrg = Nothing /\ mrg_ret = Nothing

MergeCall ==
    /\ mrg_in # Nothing
    /\ mrg = Nothing
    /\ mrg' = <<merge_enter(mrg_in[1])>>
    /\ UNCHANGED <<mrg_in, mrg_ret>>

MergeIterate ==
    /\ mrg # Nothing
    /\ mrg_ret = Nothing
    /\ mrg[1].k < Len(mrg[1].chunks)
    /\ mrg' = <<merge_iter(mrg[1])>>
    /\ UNCHANGED <<mrg_in, mrg_ret>>

MergeReturn ==
    /\ mrg # Nothing
    /\ mrg_ret = Nothing
    /\ mrg[1].k = Len(mrg[1].chunks)
    /\ mrg_ret' = <<merge_return(mrg[1])>>
    /\ UNCHANGED <<mrg_in, mrg>>

(***************************************************************************)
(* format_srt_time, generate_srt                                           *)
(***************************************************************************)
SecondsPerHour == 3600
SecondsPerMinute == 60
MaxSrtSegs == 2

Digits == <<"0", "1", "2", "3", "4", "5", "6", "7", "8", "9">>

RECURSIVE dec(_)
\* f"{n}" of a natural number
dec(n) == IF n < 10 THEN <<Digits[n + 1]>> ELSE dec(n \div 10) \o <<Digits[(n % 10) + 1]>>

\* f"{n:0<width>d}"
pad(n, width) ==
    LET d == dec(n)
    IN  IF Len(d) >= width THEN d ELSE [j \in 1..(width - Len(d)) |-> "0"] \o d

\* hours = int(seconds / 3600); minutes = int((seconds % 3600) / 60);
\* secs = seconds % 60; millis = int((secs - int(secs)) * 1000), on a time
\* given in milliseconds
format_srt_time(ms) ==
    LET hours   == ms \div (SecondsPerHour * MsPerSecond)
        minutes == (ms % (SecondsPerHour * MsPerSecond)) \div (SecondsPerMinute * MsPerSecond)
        secs    == ms % (SecondsPerMinute * MsPerSecond)
        millis  == secs % MsPerSecond
    IN  pad(hours, 2) \o <<":">> \o pad(minutes, 2) \o <<":">>
            \o pad(secs \div MsPerSecond, 2) \o <<",">> \o pad(millis, 3)

Whitespace == {" ", "\n", "\t"}

RECURSIVE lstrip(_)
lstrip(text) ==
    IF Len(text) > 0 /\ text[1] \in Whitespace THEN lstrip(Tail(text)) ELSE text

RECURSIVE rstrip(_)
rstrip(text) ==
    IF Len(text) > 0 /\ text[Len(text)] \in Whitespace
    THEN rstrip(SubSeq(text, 1, Len(text) - 1)) ELSE text

\* str.strip()
strip(text) == rstrip(lstrip(text))

Arrow == <<" ", "-", "-", ">", " ">>

\* A variant of cue: the index line is enumerate()'s i
cue_zero_based(i, segment) ==
    dec(i) \o <<"\n">>
        \o format_srt_time(segment.start) \o Arrow \o format_srt_time(segment.end)
        \o <<"\n">> \o strip(segment.text) \o <<"\n", "\n">>

\* what one iteration of the loop writes for enumerate()'s (i, segment)
cue(i, segment) ==
    dec(i + 1) \o <<"\n">>
        \o format_srt_time(segment.start) \o Arrow \o format_srt_time(segment.end)
        \o <<"\n">> \o strip(segment.text) \o <<"\n", "\n">>

RECURSIVE srt_loop(_, _)
\* for i, segment in enumerate(segments), from index i on
srt_loop(i, segments) ==
    IF i >= Len(segments) THEN << >>
    ELSE cue(i, segments[i + 1]) \o srt_loop(i + 1, segments)

\* the characters written to data/subtitles/<video_id>.srt
generate_srt(transcript) == srt_loop(0, transcript.segments)

SrtTimes == { <<0, 1500>>, <<59999, 61001>>, <<3725400, 360000000>> }

SrtTexts == { <<" ", "a", " ">>, <<"a", "\n">>, << >>, <<"a", " ", "b">> }

SrtSegments ==
    { [start |-> t[1], end |-> t[2], text |-> x] : t \in SrtTimes, x \in SrtTexts }

SrtInputs ==
    UNION { { [text |-> concat_texts(segs), segments |-> segs] :
                segs \in [1..n -> SrtSegments] } : n \in 0..MaxSrtSegs }

SrtIdle == srt_in = Nothing /\ srt_out = Nothing

SrtCall ==
    /\ srt_in # Nothing
    /\ srt_out = Nothing
    /\ srt_out' = <<generate_srt(srt_in[1])>>
    /\ UNCHANGED srt_in

(***************************************************************************)
(* The request handlers and transcribe_audio.                              *)
(*                                                                         *)
(* The Flask server answers each request on a thread of its own, so the    *)
(* handlers of several requests interleave at their file-system and        *)
(* backend calls; req[w] is the thread of request w, from its arrival      *)
(* ("idle" before it) to its answer ("done").  The content of an audio file is                         *)
(* [src, clip, bytes, len_ms]: the source it was cut from, the clip number *)
(* (0 for the whole source), its size in bytes (0 for a clip, whose size   *)
(* is never read) and its duration.  Of an artifact only its existence is  *)
(* kept.  uuid4().hex[:10] is taken to be fresh on every upload.           *)
(***************************************************************************)
NumRequests == 2
MaxClips == 2

Requests == 1..NumRequests
VideoIds == {"v1"}
Exts == {"mp3", "wav"}
FileTypes == {"json", "txt", "srt", "pdf"}

\* file_id = f"upload_{uuid4().hex[:10]}"
upload_id(n) == "upload_" \o ToString(n)

AllIds == VideoIds \cup { upload_id(n) : n \in 1..NumRequests }

\* AUDIO_DIR / f"{id}.{ext}"
audio_path(id, ext) == [id |-> id, ext |-> ext, chunk |-> 0]

\* The audio a request can bring: exactly at the size threshold (and long), and
\* one byte above it with a duration of one clip or of MaxClips clips.
Sources ==
    { [bytes |-> MAX_FILE_SIZE_MB * BytesPerMB,
       len_ms |-> MaxClips * chunk_duration_seconds * MsPerSecond] }
    \cup
    { [bytes |-> MAX_FILE_SIZE_MB * BytesPerMB + 1,
       len_ms |-> (k - 1) * chunk_duration_seconds * MsPerSecond + 1] : k \in {1, MaxClips} }

Exists(fs, path) == path \in DOMAIN fs

\* open(path, 'wb') ... write
write(fs, path, content) ==
    [p \in DOMAIN fs \cup {path} |-> IF p = path THEN content ELSE fs[p]]

\* os.remove(path), of a file that exists
remove(fs, path) == [p \in DOMAIN fs \ {path} |-> fs[p]]

RECURSIVE export_all(_, _, _, _)
\* chunk.export(chunk_file, format="mp3") for the clips k.. in loop order
export_all(fs, clips, src, k) ==
    IF k > Len(clips) THEN fs
    ELSE export_all(write(fs, clips[k].file,
                          [src |-> src, clip |-> k, bytes |-> 0,
                           len_ms |-> clips[k].end_ms - clips[k].start_ms]),
                    clips, src, k + 1)

\* client.audio.transcriptions.create on a file of this content, when it answers:
\* {"text": response.text, "segments": [dict(s) for s in response.segments]}
response(content) ==
    [text     |-> dec(content.clip),
     segments |-> <<[start |-> 0, end |-> content.len_ms, text |-> dec(content.clip)]>>]

\* TRANSCRIPT_DIR / f"{video_id}.json", TRANSCRIPT_DIR / f"{video_id}.txt"
json_file(video_id) == [dir |-> "transcripts", id |-> video_id, ext |-> "json"]
txt_file(video_id) == [dir |-> "transcripts", id |-> video_id, ext |-> "txt"]

\* A variant of srt_file: the subtitle file written under TRANSCRIPT_DIR
srt_file_in_transcripts(video_id) == [dir |-> "transcripts", id |-> video_id, ext |-> "srt"]

\* SUBTITLE_DIR / f"{video_id}.srt"
srt_file(video_id) == [dir |-> "subtitles", id |-> video_id, ext |-> "srt"]

NoResponse == [status |-> 0, error |-> ""]

IdleReq ==
    [pc |-> "idle", kind |-> "", id |-> "",
     audio_file |-> Nothing,    \* the path handed to transcribe_audio
     bytes |-> 0,               \* os.path.getsize(audio_file)
     route |-> "",              \* the branch of `if file_size_mb > MAX_FILE_SIZE_MB`
     chunk_files |-> << >>, k |-> 0, transcripts |-> << >>,
     transcript |-> Nothing,    \* the value transcribe_audio returned
     calls |-> << >>,           \* the contents submitted to the backend, in order
     backend_failed |-> FALSE,  \* a backend call of this request raised
     split_called |-> FALSE,    \* split_audio was called
     merged |-> FALSE,          \* merge_transcripts was called
     saved |-> FALSE,           \* save_transcript was called
     srt_done |-> FALSE,        \* generate_srt was called
     resp |-> NoResponse]

\* except Exception as e: return jsonify({'error': str(e)}), 500
raise(r, error) == [r EXCEPT !.pc = "done", !.resp = [status |-> 500, error |-> error]]

\* A variant of size_route: `>=` in place of `>`
size_route_inclusive(bytes) ==
    IF bytes >= MAX_FILE_SIZE_MB * BytesPerMB THEN "chunked" ELSE "direct"

\* `if file_size_mb > MAX_FILE_SIZE_MB`, file_size_mb = getsize / (1024 * 1024)
size_route(bytes) ==
    IF bytes > MAX_FILE_SIZE_MB * BytesPerMB THEN "chunked" ELSE "direct"

\* A variant of chunk_call_failed: the exception is swallowed and the loop goes on
chunk_call_failed_skip(r) == [r EXCEPT !.backend_failed = TRUE, !.pc = "remove"]

\* the exception of a backend call inside the chunk loop leaves transcribe_audio
\* and reaches the handler's except
chunk_call_failed(r) == raise([r EXCEPT !.backend_failed = TRUE], "TranscriptionError")

\* return merge_transcripts(transcripts)
finish_chunks(r) ==
    [r EXCEPT !.transcript = <<merge_transcripts(r.transcripts)>>,
              !.merged = TRUE, !.pc = "save"]

\* Request w arrives: requests are numbered in their order of arrival.
Arrives(w) ==
    /\ req[w].pc = "idle"
    /\ \A u \in Requests : u < w => req[u].pc # "idle"

\* transcribe_file up to the call of transcribe_audio
StartFile(w) ==
    /\ Arrives(w)
    /\ \E ext \in Exts, source \in Sources :
          LET file_id   == upload_id(n_uploads + 1)
              temp_file == audio_path(file_id, ext)
          IN  /\ files' = write(files, temp_file,
                                [src |-> file_id, clip |-> 0,
                                 bytes |-> source.bytes, len_ms |-> source.len_ms])
              /\ req' = [req EXCEPT ![w] =
                            [IdleReq EXCEPT !.pc = "size", !.kind = "file",
                                            !.id = file_id, !.audio_file = <<temp_file>>]]
    /\ n_uploads' = n_uploads + 1
    /\ UNCHANGED <<artifacts, video, keep_audio, harnessVars>>

\* transcribe_youtube up to the call of transcribe_audio: download_audio(video_id,
\* force_download) and `if not audio_file: return ... 500`
StartYoutube(w) ==
    /\ Arrives(w)
    /\ \E video_id \in VideoIds, force_download \in BOOLEAN :
          LET r           == [IdleReq EXCEPT !.kind = "youtube", !.id = video_id]
              output_file == audio_path(video_id, "mp3")
          IN  \/ /\ Exists(files, output_file) /\ ~force_download
                 /\ req' = [req EXCEPT ![w] = [r EXCEPT !.pc = "size",
                                                        !.audio_file = <<output_file>>]]
                 /\ UNCHANGED files
              \/ /\ ~(Exists(files, output_file) /\ ~force_download)
                 /\ files' = write(files, output_file,
                                   [src |-> video_id, clip |-> 0,
                                    bytes |-> video[video_id].bytes,
                                    len_ms |-> video[video_id].len_ms])
                 /\ req' = [req EXCEPT ![w] = [r EXCEPT !.pc = "size",
                                                        !.audio_file = <<output_file>>]]
              \/ /\ ~(Exists(files, output_file) /\ ~force_download)
                 /\ req' = [req EXCEPT ![w] = raise(r, "Failed to download audio")]
                 /\ UNCHANGED files
    /\ UNCHANGED <<artifacts, video, keep_audio, n_uploads, harnessVars>>

\* transcribe_audio: os.path.getsize(audio_file) and the size test
SizeCheck(w) ==
    LET r == req[w]
    IN  /\ r.pc = "size"
        /\ IF ~Exists(files, r.audio_file[1])
           THEN req' = [req EXCEPT ![w] = raise(r, "FileNotFoundError")]
           ELSE req' = [req EXCEPT ![w] =
                           [r EXCEPT !.bytes = files[r.audio_file[1]].bytes,
                                     !.route = size_route(files[r.audio_file[1]].bytes),
                                     !.pc = IF size_route(files[r.audio_file[1]].bytes) = "chunked"
                                            THEN "split" ELSE "direct"]]
        /\ UNCHANGED <<files, artifacts, video, keep_audio, n_uploads, harnessVars>>

\* transcribe_audio, else branch: one backend call on audio_file
DirectTranscribe(w) ==
    LET r == req[w]
    IN  /\ r.pc = "direct"
        /\ IF ~Exists(files, r.audio_file[1])
           THEN req' = [req EXCEPT ![w] = raise(r, "FileNotFoundError")]
           ELSE \/ req' = [req EXCEPT ![w] =
                              [r EXCEPT !.calls = Append(@, files[r.audio_file[1]]),
                                        !.transcript = <<response(files[r.audio_file[1]])>>,
                                        !.pc = "save"]]
                \/ req' = [req EXCEPT ![w] =
                              raise([r EXCEPT !.calls = Append(@, files[r.audio_file[1]]),
                                              !.backend_failed = TRUE],
                                    "TranscriptionError")]
        /\ UNCHANGED <<files, artifacts, video, keep_audio, n_uploads, harnessVars>>

\* transcribe_audio, if branch: chunk_files = split_audio(audio_file)
SplitAudio(w) ==
    LET r == req[w]
    IN  /\ r.pc = "split"
        /\ IF ~Exists(files, r.audio_file[1])
           THEN /\ req' = [req EXCEPT ![w] = raise(r, "FileNotFoundError")]
                /\ UNCHANGED files
           ELSE LET audio == files[r.audio_file[1]]
                    clips == split_audio(r.audio_file[1], audio.len_ms,
                                         chunk_duration_seconds)
                    r2    == [r EXCEPT !.chunk_files = [j \in 1..Len(clips) |-> clips[j].file],
                                       !.split_called = TRUE, !.k = 1, !.pc = "chunk"]
                IN  /\ files' = export_all(files, clips, audio.src, 1)
                    /\ req' = [req EXCEPT ![w] =
                                  IF Len(clips) = 0 THEN finish_chunks(r2) ELSE r2]
        /\ UNCHANGED <<artifacts, video, keep_audio, n_uploads, harnessVars>>

\* the loop body up to transcripts.append: open(chunk_file) and the backend call
ChunkTranscribe(w) ==
    LET r == req[w]
    IN  /\ r.pc = "chunk"
        /\ IF ~Exists(files, r.chunk_files[r.k])
           THEN req' = [req EXCEPT ![w] = raise(r, "FileNotFoundError")]
           ELSE \/ req' = [req EXCEPT ![w] =
                              [r EXCEPT !.calls = Append(@, files[r.chunk_files[r.k]]),
                                        !.transcripts =
                                            Append(@, response(files[r.chunk_files[r.k]])),
                                        !.pc = "remove"]]
                \/ req' = [req EXCEPT ![w] =
                              chunk_call_failed(
                                  [r EXCEPT !.calls = Append(@, files[r.chunk_files[r.k]])])]
        /\ UNCHANGED <<files, artifacts, video, keep_audio, n_uploads, harnessVars>>

\* the rest of the loop body: os.remove(chunk_file); after the last clip,
\* return merge_transcripts(transcripts)
ChunkRemove(w) ==
    LET r == req[w]
    IN  /\ r.pc = "remove"
        /\ IF ~Exists(files, r.chunk_files[r.k])
           THEN /\ req' = [req EXCEPT ![w] = raise(r, "FileNotFoundError")]
                /\ UNCHANGED files
           ELSE /\ files' = remove(files, r.chunk_files[r.k])
                /\ req' = [req EXCEPT ![w] =
                              IF r.k = Len(r.chunk_files) THEN finish_chunks(r)
                              ELSE [r EXCEPT !.k = r.k + 1, !.pc = "chunk"]]
        /\ UNCHANGED <<artifacts, video, keep_audio, n_uploads, harnessVars>>

\* save_transcript(id, transcript): the JSON file, then the text file; a write
\* that fails leaves the JSON file, which open() had created
SaveTranscript(w) ==
    LET r == req[w]
    IN  /\ r.pc = "save"
        /\ \/ /\ artifacts' = artifacts \cup {json_file(r.id), txt_file(r.id)}
              /\ req' = [req EXCEPT ![w] = [r EXCEPT !.saved = TRUE, !.pc = "srt"]]
           \/ /\ artifacts' = artifacts \cup {json_file(r.id)}
              /\ req' = [req EXCEPT ![w] = raise([r EXCEPT !.saved = TRUE], "OSError")]
        /\ UNCHANGED <<files, video, keep_audio, n_uploads, harnessVars>>

\* generate_srt(id, transcript)
GenerateSrt(w) ==
    LET r == req[w]
    IN  /\ r.pc = "srt"
        /\ \/ /\ artifacts' = artifacts \cup {srt_file(r.id)}
              /\ req' = [req EXCEPT ![w] = [r EXCEPT !.srt_done = TRUE, !.pc = "cleanup"]]
           \/ /\ req' = [req EXCEPT ![w] = raise([r EXCEPT !.srt_done = TRUE], "OSError")]
              /\ UNCHANGED artifacts
        /\ UNCHANGED <<files, video, keep_audio, n_uploads, harnessVars>>

\* if not os.environ.get("KEEP_AUDIO_FILES"): os.remove(audio_file); then the
\* 200 answer
Cleanup(w) ==
    LET r  == req[w]
        ok == [r EXCEPT !.pc = "done", !.resp = [status |-> 200, error |-> ""]]
    IN  /\ r.pc = "cleanup"
        /\ IF keep_audio
           THEN /\ req' = [req EXCEPT ![w] = ok]
                /\ UNCHANGED files
           ELSE IF ~Exists(files, r.audio_file[1])
           THEN /\ req' = [req EXCEPT ![w] = raise(r, "FileNotFoundError")]
                /\ UNCHANGED files
           ELSE /\ files' = remove(files, r.audio_file[1])
                /\ req' = [req EXCEPT ![w] = ok]
        /\ UNCHANGED <<artifacts, video, keep_audio, n_uploads, harnessVars>>

\* download(file_id, file_type) on the artifacts that exist.  The handler reads
\* the file system and changes nothing, so it is an operator: a download request
\* can be answered in every state, and its answer there is this value.
download(stored, file_id, file_type) ==
    IF file_type \notin {"json", "txt", "srt"}
    THEN [status |-> 400, file |-> Nothing]
    ELSE LET file_path ==
                 IF file_type = "json"
                 THEN [dir |-> "transcripts", id |-> file_id, ext |-> "json"]
                 ELSE IF file_type = "txt"
                 THEN [dir |-> "transcripts", id |-> file_id, ext |-> "txt"]
                 ELSE [dir |-> "subtitles", id |-> file_id, ext |-> "srt"]
         IN  IF file_path \notin stored
             THEN [status |-> 404, file |-> Nothing]
             ELSE [status |-> 200, file |-> <<file_path>>]

PipeIdle ==
    /\ files = [p \in {} |-> 0]
    /\ artifacts = {}
    /\ video = [v \in VideoIds |-> CHOOSE source \in Sources : TRUE]
    /\ keep_audio = FALSE
    /\ n_uploads = 0
    /\ req = [w \in Requests |-> IdleReq]

(***************************************************************************)
(* The specifications.                                                     *)
(***************************************************************************)
InitSplit ==
    /\ split_in \in { <<x>> : x \in SplitInputs }
    /\ split_out = Nothing
    /\ MergeIdle /\ SrtIdle /\ PipeIdle

NextSplit == SplitCall /\ UNCHANGED <<mergeVars, srtVars, pipeVars>>

SpecSplit == InitSplit /\ [][NextSplit]_vars

InitMerge ==
    /\ mrg_in \in { <<x>> : x \in MergeInputs }
    /\ mrg = Nothing
    /\ mrg_ret = Nothing
    /\ SplitIdle /\ SrtIdle /\ PipeIdle

NextMerge ==
    \/ MergeCall /\ UNCHANGED <<splitVars, srtVars, pipeVars>>
    \/ MergeIterate /\ UNCHANGED <<splitVars, srtVars, pipeVars>>
    \/ MergeReturn /\ UNCHANGED <<splitVars, srtVars, pipeVars>>

SpecMerge == InitMerge /\ [][NextMerge]_vars

InitSrt ==
    /\ srt_in \in { <<x>> : x \in SrtInputs }
    /\ srt_out = Nothing
    /\ SplitIdle /\ MergeIdle /\ PipeIdle

NextSrt == SrtCall /\ UNCHANGED <<splitVars, mergeVars, pipeVars>>

SpecSrt == InitSrt /\ [][NextSrt]_vars

Init ==
    /\ files = [p \in {} |-> 0]
    /\ artifacts = {}
    /\ video \in [VideoIds -> Sources]
    /\ keep_audio \in BOOLEAN
    /\ n_uploads = 0
    /\ req = [w \in Requests |-> IdleReq]
    /\ SplitIdle /\ MergeIdle /\ SrtIdle

Next ==
    \E w \in Requests :
        \/ StartFile(w)
        \/ StartYoutube(w)
        \/ SizeCheck(w)
        \/ DirectTranscribe(w)
        \/ SplitAudio(w)
        \/ ChunkTranscribe(w)
        \/ ChunkRemove(w)
        \/ SaveTranscript(w)
        \/ GenerateSrt(w)
        \/ Cleanup(w)

Spec == Init /\ [][Next]_vars

(***************************************************************************)
(* Properties of split_audio, under SpecSplit.                             *)
(***************************************************************************)
RECURSIVE SumDurations(_)
SumDurations(clips) ==
    IF Len(clips) = 0 THEN 0
    ELSE (clips[1].end_ms - clips[1].start_ms) + SumDurations(Tail(clips))

\* C2: for a duration D > 0 and a chunk duration M > 0 the spans split_audio
\* emits are ascending by start, the first starts at 0, each starts where the
\* one before it ends, the last ends at D, and their durations sum to D.
C2_Coverage ==
    split_out # Nothing =>
        LET D     == split_in[1].len_ms
            clips == split_out[1]
            n     == Len(clips)
        IN  /\ n >= 1
            /\ clips[1].start_ms = 0
            /\ \A j \in 1..(n - 1) :
                  /\ clips[j].start_ms < clips[j + 1].start_ms
                  /\ clips[j + 1].start_ms = clips[j].end_ms
            /\ clips[n].end_ms = D
            /\ SumDurations(clips) = D

\* 2.5 s of audio cut at 1 s: three spans, the last one short
C2_Witness ==
    /\ split_out # Nothing
    /\ split_in[1].len_ms = 2500 /\ split_in[1].M = 1
    /\ Len(split_out[1]) = 3
    /\ split_out[1][3].end_ms - split_out[1][3].start_ms = 500

\* C3: the number of clips is ceil(D / M); every clip but the last lasts exactly
\* M, and the last lasts more than 0 and at most M.
C3_ChunkCount ==
    split_out # Nothing =>
        LET D     == split_in[1].len_ms
            M_ms  == split_in[1].M * 1000
            clips == split_out[1]
            n     == Len(clips)
        IN  /\ n * M_ms >= D
            /\ (n - 1) * M_ms < D
            /\ \A j \in 1..(n - 1) : clips[j].end_ms - clips[j].start_ms = M_ms
            /\ n >= 1 => /\ clips[n].end_ms - clips[n].start_ms > 0
                         /\ clips[n].end_ms - clips[n].start_ms <= M_ms

\* D = 1500 s, M = 600 s: [0,600), [600,1200), [1200,1500)
C3_Witness ==
    /\ split_out # Nothing
    /\ split_in[1].len_ms = 1500000 /\ split_in[1].M = 600
    /\ [j \in 1..Len(split_out[1]) |-> <<split_out[1][j].start_ms, split_out[1][j].end_ms>>]
           = << <<0, 600000>>, <<600000, 1200000>>, <<1200000, 1500000>> >>

(***************************************************************************)
(* Properties of merge_transcripts, under SpecMerge.                       *)
(***************************************************************************)
WellFormed(chunks) ==
    \A c \in 1..Len(chunks) : \A j \in 1..Len(chunks[c].segments) :
        /\ chunks[c].segments[j].start >= 0
        /\ chunks[c].segments[j].end >= chunks[c].segments[j].start

LocallyOrdered(chunks) ==
    \A c \in 1..Len(chunks) : \A j \in 1..(Len(chunks[c].segments) - 1) :
        chunks[c].segments[j].start <= chunks[c].segments[j + 1].start

NonDecreasingStarts(segments) ==
    \A j \in 1..(Len(segments) - 1) : segments[j].start <= segments[j + 1].start

\* C4: on well-formed chunks whose segment starts are non-decreasing within each
\* chunk, the merged segments are non-decreasing in start time throughout, and
\* time_offset never decreases from one chunk to the next.
C4_MergeMonotone ==
    /\ [](mrg # Nothing /\ WellFormed(mrg_in[1]) /\ LocallyOrdered(mrg_in[1])
            => /\ NonDecreasingStarts(mrg[1].all_segments)
               /\ mrg_ret # Nothing => NonDecreasingStarts(mrg_ret[1].segments))
    /\ [][mrg # Nothing /\ mrg' # Nothing
            /\ WellFormed(mrg_in[1]) /\ LocallyOrdered(mrg_in[1])
            => mrg'[1].time_offset >= mrg[1].time_offset]_vars

\* three chunks with segments each, merged, the offset having grown twice
C4_Witness ==
    /\ mrg_ret # Nothing
    /\ LocallyOrdered(mrg_in[1])
    /\ Len(mrg_in[1]) = 3
    /\ \A c \in 1..3 : Len(mrg_in[1][c].segments) = 1
    /\ mrg[1].time_offset = 13

RECURSIVE OffsetFor(_, _)
\* The offset in effect for chunk k: 0 when no earlier chunk has a segment, else
\* the shifted end of the last segment of the latest earlier chunk that has one.
OffsetFor(chunks, k) ==
    LET earlier == { j \in 1..(k - 1) : Len(chunks[j].segments) > 0 }
    IN  IF earlier = {} THEN 0
        ELSE LET j == CHOOSE x \in earlier : \A y \in earlier : y <= x
             IN  chunks[j].segments[Len(chunks[j].segments)].end + OffsetFor(chunks, j)

RECURSIVE ShiftedConcat(_, _)
\* the segments of chunks k.. in order, each moved by its chunk's offset
ShiftedConcat(chunks, k) ==
    IF k > Len(chunks) THEN << >>
    ELSE [j \in 1..Len(chunks[k].segments) |->
             [start |-> chunks[k].segments[j].start + OffsetFor(chunks, k),
              end   |-> chunks[k].segments[j].end + OffsetFor(chunks, k),
              text  |-> chunks[k].segments[j].text]]
         \o ShiftedConcat(chunks, k + 1)

\* C5: the merged segments are the input segments in chunk order and in their
\* order within the chunk, each with start and end increased by the offset in
\* effect for its chunk; before chunk k + 1 is processed time_offset is that
\* offset, so a chunk without segments leaves it as it was.
C5_OffsetCarry ==
    /\ mrg # Nothing => mrg[1].time_offset = OffsetFor(mrg_in[1], mrg[1].k + 1)
    /\ mrg_ret # Nothing => mrg_ret[1].segments = ShiftedConcat(mrg_in[1], 1)

\* A = [(0,5),(5,9)], B = [(0,4)] merge to [(0,5),(5,9),(9,13)]
C5_Witness ==
    /\ mrg_ret # Nothing
    /\ Len(mrg_in[1]) = 2
    /\ [j \in 1..Len(mrg_in[1][1].segments) |->
           <<mrg_in[1][1].segments[j].start, mrg_in[1][1].segments[j].end>>]
           = << <<0, 5>>, <<5, 9>> >>
    /\ [j \in 1..Len(mrg_in[1][2].segments) |->
           <<mrg_in[1][2].segments[j].start, mrg_in[1][2].segments[j].end>>]
           = << <<0, 4>> >>
    /\ [j \in 1..Len(mrg_ret[1].segments) |->
           <<mrg_ret[1].segments[j].start, mrg_ret[1].segments[j].end>>]
           = << <<0, 5>>, <<5, 9>>, <<9, 13>> >>

(***************************************************************************)
(* Properties of generate_srt, under SpecSrt.                              *)
(***************************************************************************)
RECURSIVE DecimalValue(_)
DecimalValue(digits) ==
    IF Len(digits) = 0 THEN 0
    ELSE 10 * DecimalValue(SubSeq(digits, 1, Len(digits) - 1))
         + (CHOOSE d \in 0..9 : Digits[d + 1] = digits[Len(digits)])

IsDecimal(digits, n) ==
    /\ Len(digits) >= 1
    /\ \A j \in 1..Len(digits) : \E d \in 0..9 : Digits[d + 1] = digits[j]
    /\ Len(digits) > 1 => digits[1] # "0"
    /\ DecimalValue(digits) = n

\* t is text without its leading and trailing whitespace
IsTrimmed(t, text) ==
    \E a \in 1..(Len(text) + 1), b \in 0..Len(text) :
        /\ t = SubSeq(text, a, b)
        /\ \A j \in 1..(a - 1) : text[j] \in {" ", "\n", "\t"}
        /\ \A j \in (b + 1)..Len(text) : text[j] \in {" ", "\n", "\t"}
        /\ Len(t) > 0 => t[1] \notin {" ", "\n", "\t"} /\ t[Len(t)] \notin {" ", "\n", "\t"}

\* the timestamp line `HH:MM:SS,mmm --> HH:MM:SS,mmm` of a segment
TimestampLine(segment) ==
    format_srt_time(segment.start) \o <<" ", "-", "-", ">", " ">>
        \o format_srt_time(segment.end)

RECURSIVE IsCues(_, _, _)
\* out is the cue blocks i, i + 1, ... of the segments, and nothing else
IsCues(out, i, segments) ==
    IF Len(segments) = 0 THEN out = << >>
    ELSE \E n1 \in 1..Len(out) :
            /\ out[n1] = "\n"
            /\ IsDecimal(SubSeq(out, 1, n1 - 1), i)
            /\ LET ts == TimestampLine(segments[1])
                   n2 == n1 + Len(ts) + 1
               IN  /\ n2 <= Len(out)
                   /\ SubSeq(out, n1 + 1, n2 - 1) = ts
                   /\ out[n2] = "\n"
                   /\ \E n3 \in (n2 + 1)..(Len(out) - 1) :
                         /\ IsTrimmed(SubSeq(out, n2 + 1, n3 - 1), segments[1].text)
                         /\ out[n3] = "\n" /\ out[n3 + 1] = "\n"
                         /\ IsCues(SubSeq(out, n3 + 2, Len(out)), i + 1, Tail(segments))

\* C9: for n >= 0 segments generate_srt writes n cue blocks in segment order,
\* block i being the index line i (from 1), the `start --> end` line of the
\* segment, its text without leading and trailing whitespace, and a blank line;
\* no segments give empty output.
C9_SrtCues ==
    srt_out # Nothing => IsCues(srt_out[1], 1, srt_in[1].segments)

\* two segments, the first with whitespace around its text
C9_Witness ==
    /\ srt_out # Nothing
    /\ Len(srt_in[1].segments) = 2
    /\ srt_in[1].segments[1].text = <<" ", "a", " ">>
    /\ srt_in[1].segments[1].start = 59999
    /\ srt_out[1] # << >>

(***************************************************************************)
(* Properties of the handlers, under Spec.                                 *)
(***************************************************************************)
\* C1: when the backend call of a clip fails in a chunked run, the run is over
\* and has failed, whatever clips were transcribed before: the handler answers
\* an error, transcribe_audio returned no transcript, and merge_transcripts,
\* save_transcript and generate_srt were not called for that request.
C1_AllOrNothing ==
    \A w \in Requests :
        req[w].backend_failed /\ req[w].route = "chunked" =>
            /\ req[w].pc = "done"
            /\ req[w].resp.status = 500
            /\ req[w].transcript = Nothing
            /\ ~req[w].merged /\ ~req[w].saved /\ ~req[w].srt_done

\* the second clip failed after the first was transcribed
C1_Witness ==
    \E w \in Requests :
        /\ req[w].backend_failed /\ req[w].route = "chunked"
        /\ Len(req[w].chunk_files) >= 2
        /\ Len(req[w].transcripts) >= 1
        /\ req[w].pc = "done"

\* C6: a source of at most 24 MB is sent to the backend whole, in one call,
\* without split_audio or merge_transcripts, and that call's result is what
\* transcribe_audio returns; a larger source is split, and a transcript comes
\* from one call per clip and merge_transcripts.  The byte size alone decides.
C6_SizeRouting ==
    \A w \in Requests :
        /\ req[w].route = "" => req[w].calls = << >> /\ ~req[w].split_called
        /\ req[w].route = "direct" =>
              /\ req[w].bytes <= 24 * 1024 * 1024
              /\ ~req[w].split_called /\ ~req[w].merged
              /\ Len(req[w].calls) <= 1
              /\ \A j \in 1..Len(req[w].calls) :
                    req[w].calls[j].clip = 0 /\ req[w].calls[j].src = req[w].id
              /\ req[w].transcript # Nothing =>
                    /\ Len(req[w].calls) = 1
                    /\ req[w].transcript[1] = response(req[w].calls[1])
        /\ req[w].route = "chunked" =>
              /\ req[w].bytes > 24 * 1024 * 1024
              /\ \A j \in 1..Len(req[w].calls) : req[w].calls[j].clip >= 1
              /\ req[w].calls # << >> => req[w].split_called
              /\ req[w].transcript # Nothing =>
                    /\ req[w].split_called /\ req[w].merged
                    /\ Len(req[w].calls) = Len(req[w].chunk_files)
        /\ req[w].route \in {"", "direct", "chunked"}
        /\ req[w].pc \in {"direct", "split", "chunk", "remove", "save", "srt", "cleanup"}
              => req[w].route # ""

\* a source of exactly 24 MB that lasts longer than one chunk went to the
\* backend whole
C6_Witness ==
    \E w \in Requests :
        /\ req[w].route = "direct"
        /\ req[w].bytes = 24 * 1024 * 1024
        /\ req[w].transcript # Nothing
        /\ req[w].calls[1].len_ms > 600 * 1000

\* C7: a chunked run that has ended, in success or in failure, has left none of
\* the chunk files split_audio wrote for it.
C7_ClipsReleased ==
    \A w \in Requests :
        req[w].pc = "done" /\ req[w].split_called =>
            \A j \in 1..Len(req[w].chunk_files) : ~Exists(files, req[w].chunk_files[j])

Stored(file_id, file_type) ==
    \E a \in artifacts : a.id = file_id /\ a.ext = file_type

\* C8: once a transcription request has answered success for an identifier,
\* download answers with the stored artifact for each of json, txt and srt; a
\* download of an (identifier, format) with no stored artifact answers 404.
C8_ThreeFormats ==
    /\ \A w \in Requests : req[w].resp.status = 200 =>
          \A file_type \in {"json", "txt", "srt"} :
              /\ Stored(req[w].id, file_type)
              /\ download(artifacts, req[w].id, file_type).status = 200
              /\ download(artifacts, req[w].id, file_type).file # Nothing
              /\ download(artifacts, req[w].id, file_type).file[1] \in artifacts
              /\ download(artifacts, req[w].id, file_type).file[1].id = req[w].id
              /\ download(artifacts, req[w].id, file_type).file[1].ext = file_type
    /\ \A file_id \in AllIds, file_type \in {"json", "txt", "srt"} :
          ~Stored(file_id, file_type) =>
              download(artifacts, file_id, file_type).status = 404

\* one request has answered success while another identifier has only its JSON
\* file, left by a save that failed
C8_Witness ==
    \E w \in Requests :
        /\ req[w].resp.status = 200
        /\ download(artifacts, req[w].id, "srt").status = 200
        /\ \E file_id \in AllIds :
              /\ download(artifacts, file_id, "json").status = 200
              /\ download(artifacts, file_id, "txt").status = 404

\* C10: a request ends as it would have ended alone.  Alone, a file the
\* request was handed or wrote is missing only in the chunked run of an upload
\* that is not .mp3; so no other request ends on a missing file, whatever the
\* requests running beside it do.
C10_SameOutcomeAsAlone ==
    \A w \in Requests :
        req[w].pc = "done" /\ req[w].resp.error = "FileNotFoundError" =>
            /\ req[w].kind = "file"
            /\ req[w].audio_file[1].ext # "mp3"
            /\ req[w].route = "chunked"

\* The requests served one after the other: a request takes a step only when no
\* other request is between its arrival and its answer.
NextSerial ==
    \E w \in Requests :
        /\ \A u \in Requests : u # w => req[u].pc \in {"idle", "done"}
        /\ \/ StartFile(w)
           \/ StartYoutube(w)
           \/ SizeCheck(w)
           \/ DirectTranscribe(w)
           \/ SplitAudio(w)
           \/ ChunkTranscribe(w)
           \/ ChunkRemove(w)
           \/ SaveTranscript(w)
           \/ GenerateSrt(w)
           \/ Cleanup(w)

SpecSerial == Init /\ [][NextSerial]_vars

(***************************************************************************)
(* Properties of the chunk loop of transcribe_audio, under Spec.           *)
(***************************************************************************)
\* C11: in a chunked run over the clips c_1..c_N of a source, the backend is
\* called on the clips in ascending clip order (the j-th call is on clip c_j of
\* that source, so no clip is submitted twice), the j-th collected ChunkResult
\* is the result of clip c_j, merge_transcripts is called only when all N
\* results are collected and on them in that order, and a run that answered
\* success submitted every clip.
C11_OrderedExactlyOnce ==
    \A w \in Requests :
        req[w].split_called =>
            LET r == req[w]
                N == Len(r.chunk_files)
            IN  /\ Len(r.calls) <= N
                /\ \A j \in 1..Len(r.calls) :
                      r.calls[j].clip = j /\ r.calls[j].src = r.id
                /\ Len(r.transcripts) <= Len(r.calls)
                /\ \A j \in 1..Len(r.transcripts) :
                      r.transcripts[j] = response(r.calls[j])
                /\ r.merged =>
                      /\ Len(r.transcripts) = N
                      /\ r.transcript = <<merge_transcripts(r.transcripts)>>
                /\ r.resp.status = 200 => Len(r.calls) = N /\ r.merged

(***************************************************************************)
(* The argument of merge_transcripts after the call, under SpecMerge.      *)
(***************************************************************************)
\* C12: when merge_transcripts has returned, every segment of every ChunkResult
\* of its argument still has the clip-local start and end it was handed in
\* with, and merging the argument a second time returns the same text and the
\* same segments as the first time.
C12_InputUnchanged ==
    mrg_ret # Nothing =>
        /\ \A c \in 1..Len(mrg_in[1]) : \A j \in 1..Len(mrg_in[1][c].segments) :
              /\ mrg[1].chunks[c].segments[j].start = mrg_in[1][c].segments[j].start
              /\ mrg[1].chunks[c].segments[j].end = mrg_in[1][c].segments[j].end
        /\ merge_transcripts(mrg[1].chunks) = mrg_ret[1]

(***************************************************************************)
(* The paths split_audio writes its clips to, under Spec.                  *)
(***************************************************************************)
\* C13: for every source path a handler passes to transcribe_audio, the chunk
\* file paths split_audio returned are pairwise distinct and none is the source
\* path, and the file at the source path is never the export of a clip.  (With
\* such paths os.remove(chunk_file), which removes that one path, removes
\* neither the source nor a clip still to be transcribed.)
C13_ClipPathsDistinct ==
    \A w \in Requests :
        req[w].split_called =>
            LET r == req[w]
                N == Len(r.chunk_files)
            IN  /\ \A i, j \in 1..N : i # j => r.chunk_files[i] # r.chunk_files[j]
                /\ \A j \in 1..N : r.chunk_files[j] # r.audio_file[1]
                /\ Exists(files, r.audio_file[1]) => files[r.audio_file[1]].clip = 0

====
